---- MODULE Spec2Model ----
(***************************************************************************)
(* Model of invoices.py: class Invoice (validated construction of an       *)
(* amount in pounds and pennies) and class InvoiceStats (a capped list of  *)
(* invoices with mean and median rounded half down).                       *)
(*                                                                         *)
(* Two specifications share the module:                                    *)
(*   SpecInvoice  - calls of Invoice(...) and convert_to_pennies()         *)
(*   Spec         - calls of the InvoiceStats methods on one object        *)
(***************************************************************************)
EXTENDS Integers, Sequences, FiniteSets, TLC

VARIABLES
    \* ---- Invoice side ------------------------------------------------
    inv_called,     \* TRUE once Invoice(...) has been called
    inv_pounds,     \* the argument `pounds` of the last call
    inv_pennies,    \* the argument `pennies_rem` of the last call
    inv_result,     \* outcome of the last call: [err, check, obj]
    inv_ret,        \* value returned by the last convert_to_pennies()
    \* ---- InvoiceStats side -------------------------------------------
    invoice_list,   \* self.invoice_list
    invoice_count,  \* self.invoice_count
    op,             \* name of the last method called
    arg,            \* its argument: a sequence of values
    err,            \* the exception it raised, or NoError
    ret,            \* the value it returned (get_mean / get_median)
    pre_list,       \* invoice_list when the method was entered
    pre_count,      \* invoice_count when the method was entered
    prev_clear      \* invoice_count on entry of the call before, when that call was clear(); else -1

invVars == <<inv_called, inv_pounds, inv_pennies, inv_result, inv_ret>>
statsVars == <<invoice_list, invoice_count, op, arg, err, ret, pre_list, pre_count, prev_clear>>
vars == <<inv_called, inv_pounds, inv_pennies, inv_result, inv_ret,
          invoice_list, invoice_count, op, arg, err, ret, pre_list, pre_count,
          prev_clear>>

----------------------------------------------------------------------------
(* Sizes.  The program's limits (2E10 pennies, 2E7 invoices) and the 53-bit *)
(* significand of a Python float are far beyond what can be enumerated, so  *)
(* the three are scaled down together.  The scaling keeps the two relations *)
(* the arithmetic depends on:                                               *)
(*   - every half of a sum of two amounts is a float exactly               *)
(*     (2 * 2E10 < 2^53;  here 2 * MAX_VALUE_PENNIES < 2^MANT_DIG);         *)
(*   - a mean of INVOICE_COUNT_MAX amounts near the maximum has fewer       *)
(*     fraction bits than the count has bits                                *)
(*     (2E10 * 2E7 > 2^53;  here MAX_VALUE_PENNIES * 3 > 2^MANT_DIG).       *)

\* stands for Invoice._MAX_VALUE_PENNIES = 2E10
MAX_VALUE_PENNIES == 250

\* stands for InvoiceStats._INVOICE_COUNT_MAX = 2E7
INVOICE_COUNT_MAX == 3

\* stands for sys.float_info.mant_dig = 53
MANT_DIG == 9

\* longest argument list of add_invoices / InvoiceStats(*args)
MaxBatch == 2

----------------------------------------------------------------------------
(* Python values.  Every value is a record [kind, v, s]:                   *)
(*   int       v = the integer                                             *)
(*   float     v = the value in units of 1/Unit (always a float of         *)
(*                 MANT_DIG significant bits)                              *)
(*   str       s = the characters                                          *)
(*   NoneType                                                              *)
(*   TypeError the exception an operator raised on its operands            *)

RECURSIVE Pow2(_)
Pow2(n) == IF n <= 0 THEN 1 ELSE 2 * Pow2(n - 1)

\* fraction bits of the fixed grid floats are written on
FracBits == MANT_DIG + 3
Unit == Pow2(FracBits)

PyInt(n) == [kind |-> "int", v |-> n, s |-> ""]
PyFloatRaw(m) == [kind |-> "float", v |-> m, s |-> ""]
PyStr(t) == [kind |-> "str", v |-> 0, s |-> t]
PyNone == [kind |-> "NoneType", v |-> 0, s |-> ""]
PyTypeError == [kind |-> "TypeError", v |-> 0, s |-> ""]

\* binary exponent e of num/den > 0:  2^e <= num/den < 2^(e+1)
RECURSIVE Exponent(_, _)
Exponent(num, den) ==
    IF num >= 2 * den THEN 1 + Exponent(num, 2 * den)
    ELSE IF num < den THEN Exponent(2 * num, den) - 1
    ELSE 0

\* The float nearest to num/den (num >= 0, den > 0), ties to even, in units
\* of 1/Unit: the result of int / int and of float(Fraction).  The quotient
\* is scaled to a significand k of MANT_DIG bits, rounded, and scaled back.
NearestFloat(num, den) ==
    IF num = 0 THEN 0
    ELSE LET sh == MANT_DIG - 1 - Exponent(num, den)
             N == IF sh >= 0 THEN num * Pow2(sh) ELSE num
             D == IF sh >= 0 THEN den ELSE den * Pow2(0 - sh)
             k == N \div D
             r == N % D
             up == (2 * r > D) \/ (2 * r = D /\ k % 2 = 1)
             ulp == Pow2(FracBits - sh)
         IN  (IF up THEN k + 1 ELSE k) * ulp

\* the float nearest to the rational num/den of either sign
ToFloat(num, den) ==
    IF num >= 0 THEN PyFloatRaw(NearestFloat(num, den))
    ELSE PyFloatRaw(0 - NearestFloat(0 - num, den))

RECURSIVE StrRepeat(_, _)
StrRepeat(t, n) == IF n <= 0 THEN "" ELSE t \o StrRepeat(t, n - 1)

\* a * b for an int a
PyMulInt(a, b) ==
    CASE b.kind = "int" -> PyInt(a * b.v)
      [] b.kind = "float" -> ToFloat(a * b.v, Unit)
      [] b.kind = "str" -> PyStr(StrRepeat(b.s, a))
      [] OTHER -> PyTypeError

\* a + b
PyAdd(a, b) ==
    CASE a.kind = "TypeError" \/ b.kind = "TypeError" -> PyTypeError
      [] a.kind = "int" /\ b.kind = "int" -> PyInt(a.v + b.v)
      [] a.kind = "int" /\ b.kind = "float" -> ToFloat(a.v * Unit + b.v, Unit)
      [] a.kind = "float" /\ b.kind = "int" -> ToFloat(a.v + b.v * Unit, Unit)
      [] a.kind = "float" /\ b.kind = "float" -> ToFloat(a.v + b.v, Unit)
      [] a.kind = "str" /\ b.kind = "str" -> PyStr(a.s \o b.s)
      [] OTHER -> PyTypeError

\* isinstance(x, int)
IsInt(x) == x.kind = "int"

----------------------------------------------------------------------------
(* class Invoice *)

NoError == "NoError"
NoInvoice == [kind |-> "NoInvoice", pounds |-> 0, pennies_rem |-> 0, pennies_tot |-> 0]
NoRet == [kind |-> "NoRet", v |-> 0, s |-> ""]

\* return 100 * self.pounds + self.pennies_rem
convert_to_pennies(pounds, pennies_rem) == PyAdd(PyMulInt(100, pounds), pennies_rem)

\* Each check is TRUE when it raises InvoiceValidationError.
check_int_values(pounds, pennies_rem) == ~IsInt(pounds) \/ ~IsInt(pennies_rem)

check_negative_values(pounds, pennies_rem) == pounds.v < 0 \/ pennies_rem.v < 0

check_pennies(pennies_rem) == pennies_rem.v > 99

check_max_value_ge(pennies_tot) == pennies_tot.v >= MAX_VALUE_PENNIES

check_max_value(pennies_tot) == pennies_tot.v > MAX_VALUE_PENNIES

\* The check of _check_valid_inputs that raises, in the order it runs them.
check_valid_inputs(pounds, pennies_rem, pennies_tot) ==
    IF check_int_values(pounds, pennies_rem) THEN "int_values"
    ELSE IF check_negative_values(pounds, pennies_rem) THEN "negative_values"
    ELSE IF check_pennies(pennies_rem) THEN "pennies"
    ELSE IF check_max_value(pennies_tot) THEN "max_value"
    ELSE "none"

\* Invoice(supplier, recipient, pounds, pennies_rem): the total is computed
\* first, then the inputs are checked.  supplier, recipient and issue_dt are
\* stored unchecked and take no part in any later computation.
InvoiceNew(pounds, pennies_rem) ==
    LET pennies_tot == convert_to_pennies(pounds, pennies_rem)
    IN  IF pennies_tot.kind = "TypeError"
        THEN [err |-> "TypeError", check |-> "none", obj |-> NoInvoice]
        ELSE LET failed == check_valid_inputs(pounds, pennies_rem, pennies_tot)
             IN  IF failed # "none"
                 THEN [err |-> "InvoiceValidationError", check |-> failed, obj |-> NoInvoice]
                 ELSE [err |-> NoError, check |-> "none",
                       obj |-> [kind |-> "Invoice", pounds |-> pounds.v,
                                pennies_rem |-> pennies_rem.v,
                                pennies_tot |-> pennies_tot.v]]

\* Arguments tried for pounds and pennies_rem: integers around every limit,
\* floats (negative, integral, fractional), a string and None.
PoundsIn ==
    {PyInt(n) : n \in {-1, 0, 1, MAX_VALUE_PENNIES \div 100, MAX_VALUE_PENNIES \div 100 + 1}}
    \cup {ToFloat(-3, 2), ToFloat(2, 1), ToFloat(5, 2)}
    \cup {PyStr("12"), PyNone}

PenniesIn ==
    {PyInt(n) : n \in {-1, 0, 1, MAX_VALUE_PENNIES % 100, (MAX_VALUE_PENNIES % 100) + 1, 99, 100}}
    \cup {ToFloat(1, 2), ToFloat(-1, 2)}
    \cup {PyStr("5"), PyNone}

InvInit ==
    /\ inv_called = FALSE
    /\ inv_pounds = PyNone
    /\ inv_pennies = PyNone
    /\ inv_result = [err |-> NoError, check |-> "none", obj |-> NoInvoice]
    /\ inv_ret = NoRet

\* x = Invoice("Company-A", "Company-B", pounds, pennies_rem)
InvoiceCall ==
    \E pounds \in PoundsIn, pennies_rem \in PenniesIn :
        /\ inv_called' = TRUE
        /\ inv_pounds' = pounds
        /\ inv_pennies' = pennies_rem
        /\ inv_result' = InvoiceNew(pounds, pennies_rem)
        /\ inv_ret' = NoRet
        /\ UNCHANGED statsVars

\* x.convert_to_pennies() on the invoice the last call produced
ConvertToPenniesCall ==
    /\ inv_result.obj.kind = "Invoice"
    /\ inv_ret = NoRet
    /\ inv_ret' = convert_to_pennies(PyInt(inv_result.obj.pounds),
                                     PyInt(inv_result.obj.pennies_rem))
    /\ UNCHANGED <<inv_called, inv_pounds, inv_pennies, inv_result>>
    /\ UNCHANGED statsVars

----------------------------------------------------------------------------
(* class InvoiceStats.  `self` is [invoice_list, invoice_count]; a method   *)
(* that can raise returns [self, err]: the object as the exception leaves   *)
(* it, and the exception.                                                   *)

\* is_invoice: TRUE when it raises InvoiceStatsTypeError
is_invoice(invoice) == invoice.kind # "Invoice"

check_max_invoice_num_gt(count) == count > INVOICE_COUNT_MAX

\* check_max_invoice_num: TRUE when it raises MaxNumberOfInvoicesError
check_max_invoice_num(count) == count >= INVOICE_COUNT_MAX

add_invoice_cap_first(self, invoice) ==
    IF check_max_invoice_num(self.invoice_count)
    THEN [self |-> self, err |-> "MaxNumberOfInvoicesError"]
    ELSE IF is_invoice(invoice)
    THEN [self |-> self, err |-> "InvoiceStatsTypeError"]
    ELSE [self |-> [invoice_list |-> Append(self.invoice_list, invoice),
                    invoice_count |-> self.invoice_count + 1],
          err |-> NoError]

add_invoice(self, invoice) ==
    IF is_invoice(invoice)
    THEN [self |-> self, err |-> "InvoiceStatsTypeError"]
    ELSE IF check_max_invoice_num(self.invoice_count)
    THEN [self |-> self, err |-> "MaxNumberOfInvoicesError"]
    ELSE [self |-> [invoice_list |-> Append(self.invoice_list, invoice),
                    invoice_count |-> self.invoice_count + 1],
          err |-> NoError]

RECURSIVE add_invoices_skip_failed(_, _)
add_invoices_skip_failed(self, invoices) ==
    IF invoices = <<>> THEN [self |-> self, err |-> NoError]
    ELSE LET r == add_invoice(self, Head(invoices))
             rest == add_invoices_skip_failed(r.self, Tail(invoices))
         IN  [self |-> rest.self,
              err |-> IF r.err # NoError THEN r.err ELSE rest.err]

\* for invoice in invoices: self.add_invoice(invoice)
RECURSIVE add_invoices(_, _)
add_invoices(self, invoices) ==
    IF invoices = <<>> THEN [self |-> self, err |-> NoError]
    ELSE LET r == add_invoice(self, Head(invoices))
         IN  IF r.err # NoError THEN r
             ELSE add_invoices(r.self, Tail(invoices))

clear_keep_count(self) == [invoice_list |-> <<>>, invoice_count |-> self.invoice_count]

clear_keep_list(self) == [invoice_list |-> self.invoice_list, invoice_count |-> 0]

clear(self) == [invoice_list |-> <<>>, invoice_count |-> 0]

\* __init__(self, *args): self.clear(); self.add_invoices(list(args))
StatsNew(self, args) == add_invoices(clear(self), args)

\* (amount.pennies_tot for amount in self.invoice_list)
invoice_amounts(self) ==
    [i \in 1..Len(self.invoice_list) |-> self.invoice_list[i].pennies_tot]

RECURSIVE SumSeq(_)
SumSeq(q) == IF q = <<>> THEN 0 ELSE Head(q) + SumSeq(Tail(q))

RECURSIVE InsertSorted(_, _)
InsertSorted(x, q) ==
    IF q = <<>> THEN <<x>>
    ELSE IF x <= Head(q) THEN <<x>> \o q
    ELSE <<Head(q)>> \o InsertSorted(x, Tail(q))

\* sorted(data)
RECURSIVE sorted(_)
sorted(q) == IF q = <<>> THEN <<>> ELSE InsertSorted(Head(q), sorted(Tail(q)))

\* statistics.mean of a non-empty sequence of ints: the exact quotient, an
\* int when it is whole and otherwise the float nearest to it
statistics_mean(data) ==
    LET total == SumSeq(data)
        n == Len(data)
    IN  IF total % n = 0 THEN PyInt(total \div n) ELSE ToFloat(total, n)

\* statistics.median of a non-empty sequence of ints: the middle element, or
\* (data[i - 1] + data[i]) / 2 as a float
statistics_median(data) ==
    LET d == sorted(data)
        n == Len(d)
    IN  IF n % 2 = 1 THEN PyInt(d[(n \div 2) + 1])
        ELSE ToFloat(d[n \div 2] + d[(n \div 2) + 1], 2)

round_half_up(pennies) ==
    IF pennies.kind = "int" THEN pennies
    ELSE LET fractional_penny == pennies.v % Unit
             floor == pennies.v \div Unit
         IN  IF 2 * fractional_penny < Unit THEN PyInt(floor) ELSE PyInt(floor + 1)

\* fractional_penny = pennies % 1
\* floor(pennies) if fractional_penny <= 0.5 else ceil(pennies)
round_half_down(pennies) ==
    IF pennies.kind = "int" THEN pennies
    ELSE LET fractional_penny == pennies.v % Unit
             floor == pennies.v \div Unit
             ceil == IF fractional_penny = 0 THEN floor ELSE floor + 1
         IN  IF 2 * fractional_penny <= Unit THEN PyInt(floor) ELSE PyInt(ceil)

\* get_mean / get_median: [ret, err]; statistics raises StatisticsError on
\* an empty sequence
get_mean(self) ==
    LET amounts == invoice_amounts(self)
    IN  IF amounts = <<>> THEN [ret |-> NoRet, err |-> "StatisticsError"]
        ELSE [ret |-> round_half_down(statistics_mean(amounts)), err |-> NoError]

get_median(self) ==
    LET amounts == invoice_amounts(self)
    IN  IF amounts = <<>> THEN [ret |-> NoRet, err |-> "StatisticsError"]
        ELSE [ret |-> round_half_down(statistics_median(amounts)), err |-> NoError]

----------------------------------------------------------------------------
(* Calls on one InvoiceStats object *)

\* amounts of the invoices handed to the object: two small ones and one near
\* the maximum
StatsAmountsIn == {<<0, 1>>, <<0, 2>>, <<MAX_VALUE_PENNIES \div 100, 1>>}

StatsInvoices == {InvoiceNew(PyInt(a[1]), PyInt(a[2])).obj : a \in StatsAmountsIn}

\* what a caller may pass to add_invoice: an Invoice, or the string "invoice"
StatsInputs ==
    StatsInvoices \cup
    {[kind |-> "str", pounds |-> 0, pennies_rem |-> 0, pennies_tot |-> 0]}

BatchInputs == UNION {[1..n -> StatsInputs] : n \in 0..MaxBatch}

Self == [invoice_list |-> invoice_list, invoice_count |-> invoice_count]

StatsInit ==
    /\ invoice_list = <<>>
    /\ invoice_count = 0
    /\ op = "__init__"
    /\ arg = <<>>
    /\ err = NoError
    /\ ret = NoRet
    /\ pre_list = <<>>
    /\ pre_count = 0
    /\ prev_clear = -1

\* bookkeeping shared by every call
Called(name, a, self2, e, r) ==
    /\ op' = name
    /\ arg' = a
    /\ invoice_list' = self2.invoice_list
    /\ invoice_count' = self2.invoice_count
    /\ err' = e
    /\ ret' = r
    /\ pre_list' = invoice_list
    /\ pre_count' = invoice_count
    /\ prev_clear' = IF op = "clear" THEN pre_count ELSE -1
    /\ UNCHANGED invVars

\* stats = InvoiceStats(*args)
StatsInitCall ==
    \E args \in BatchInputs :
        LET r == StatsNew(Self, args)
        IN  Called("__init__", args, r.self, r.err, NoRet)

AddInvoiceCall ==
    \E invoice \in StatsInputs :
        LET r == add_invoice(Self, invoice)
        IN  Called("add_invoice", <<invoice>>, r.self, r.err, NoRet)

AddInvoicesCall ==
    \E invoices \in BatchInputs :
        LET r == add_invoices(Self, invoices)
        IN  Called("add_invoices", invoices, r.self, r.err, NoRet)

ClearCall == Called("clear", <<>>, clear(Self), NoError, NoRet)

GetMeanCall ==
    LET r == get_mean(Self)
    IN  Called("get_mean", <<>>, Self, r.err, r.ret)

GetMedianCall ==
    LET r == get_median(Self)
    IN  Called("get_median", <<>>, Self, r.err, r.ret)

Init == InvInit /\ StatsInit

Next ==
    \/ StatsInitCall
    \/ AddInvoiceCall
    \/ AddInvoicesCall
    \/ ClearCall
    \/ GetMeanCall
    \/ GetMedianCall

Spec == Init /\ [][Next]_vars

InvNext ==
    \/ InvoiceCall
    \/ ConvertToPenniesCall

SpecInvoice == Init /\ [][InvNext]_vars

----------------------------------------------------------------------------
(* Properties of Invoice (checked under SpecInvoice) *)

IsNumber(x) == x.kind = "int" \/ x.kind = "float"

\* the amount rules as the documentation states them, on the arguments alone
NotInteger(x) == x.kind # "int"
Negative(x) == IsNumber(x) /\ x.v < 0
Above99(x) == (x.kind = "int" /\ x.v > 99) \/ (x.kind = "float" /\ x.v > 99 * Unit)
ValidAmount(p, q) ==
    /\ p.kind = "int" /\ q.kind = "int"
    /\ p.v >= 0 /\ q.v >= 0 /\ q.v <= 99
    /\ 100 * p.v + q.v <= MAX_VALUE_PENNIES

\* the earliest rule, in the documented order, that the arguments violate
FirstViolatedRule(p, q) ==
    IF NotInteger(p) \/ NotInteger(q) THEN "int_values"
    ELSE IF Negative(p) \/ Negative(q) THEN "negative_values"
    ELSE IF Above99(q) THEN "pennies"
    ELSE IF 100 * p.v + q.v > MAX_VALUE_PENNIES THEN "max_value"
    ELSE "none"

\* C3: whenever pounds or pennies_rem is not an integer (a float, a string
\* or None), Invoice(...) raises InvoiceValidationError, raises nothing
\* else, and produces no invoice.
C3_NonIntegerRaisesValidationError ==
    (inv_called /\ (NotInteger(inv_pounds) \/ NotInteger(inv_pennies)))
        => (inv_result.err = "InvoiceValidationError" /\ inv_result.obj = NoInvoice)

\* C4: the checks run in the order type, negativity, pennies range, maximum
\* value, and the error raised is the one of the earliest rule the arguments
\* violate.
C4_FirstFailingCheckReported ==
    (inv_called /\ FirstViolatedRule(inv_pounds, inv_pennies) # "none")
        => (/\ inv_result.err = "InvoiceValidationError"
            /\ inv_result.check = FirstViolatedRule(inv_pounds, inv_pennies))

\* C5: for integers pounds >= 0 and 0 <= pennies_rem <= 99 whose total is at
\* most the maximum (the maximum itself included) Invoice(...) succeeds, and
\* the stored pennies_tot and convert_to_pennies() are 100*pounds+pennies_rem.
C5_ValidAmountConstructs ==
    (inv_called /\ ValidAmount(inv_pounds, inv_pennies))
        => (/\ inv_result.err = NoError
            /\ inv_result.obj.kind = "Invoice"
            /\ inv_result.obj.pennies_tot = 100 * inv_pounds.v + inv_pennies.v
            /\ (inv_ret # NoRet
                  => inv_ret = PyInt(100 * inv_pounds.v + inv_pennies.v)))

\* an invoice of exactly the maximum value was built and its total read back
C5_Witness ==
    /\ inv_called
    /\ ValidAmount(inv_pounds, inv_pennies)
    /\ 100 * inv_pounds.v + inv_pennies.v = MAX_VALUE_PENNIES
    /\ inv_ret = PyInt(MAX_VALUE_PENNIES)

----------------------------------------------------------------------------
(* Properties of InvoiceStats (checked under Spec) *)

IsInvoiceObj(x) == x.kind = "Invoice"

Amounts(list) == [i \in 1..Len(list) |-> list[i].pennies_tot]

\* C1: after any sequence of InvoiceStats(...), add_invoice, add_invoices
\* and clear calls, failed ones included, invoice_count is the length of
\* invoice_list.
C1_CountIsLength == invoice_count = Len(invoice_list)

\* a call that raised half way left a longer list behind
C1_Witness ==
    /\ op = "add_invoices"
    /\ err = "MaxNumberOfInvoicesError"
    /\ Len(invoice_list) > Len(pre_list)

MeanRoundedHalfDown(data) ==
    LET total == SumSeq(data)
        n == Len(data)
        q == total \div n
        r == total % n
    IN  IF 2 * r <= n THEN q ELSE q + 1

\* C6: on a non-empty object get_mean returns floor(S/n) when the fractional
\* part of S/n is at most 1/2 and ceil(S/n) when it is more, and changes
\* nothing.
C6_MeanRoundsHalfDown ==
    (op = "get_mean" /\ pre_list # <<>>)
        => (/\ err = NoError
            /\ ret = PyInt(MeanRoundedHalfDown(Amounts(pre_list)))
            /\ invoice_list = pre_list
            /\ invoice_count = pre_count)

\* the k-th smallest element of data, by counting
KthSmallest(data, k) ==
    CHOOSE x \in {data[i] : i \in 1..Len(data)} :
        /\ Cardinality({i \in 1..Len(data) : data[i] < x}) < k
        /\ Cardinality({i \in 1..Len(data) : data[i] <= x}) >= k

MedianRoundedDown(data) ==
    LET n == Len(data)
    IN  IF n % 2 = 1 THEN KthSmallest(data, (n \div 2) + 1)
        ELSE (KthSmallest(data, n \div 2) + KthSmallest(data, (n \div 2) + 1)) \div 2

\* C7: on a non-empty object get_median returns the middle of the sorted
\* amounts for an odd count and floor((a+b)/2) of the two middle ones for an
\* even count, whatever the insertion order, and changes nothing.
C7_MedianRoundsDown ==
    (op = "get_median" /\ pre_list # <<>>)
        => (/\ err = NoError
            /\ ret = PyInt(MedianRoundedDown(Amounts(pre_list)))
            /\ invoice_list = pre_list
            /\ invoice_count = pre_count)

\* an even count, inserted in descending order, whose two middle amounts sum
\* to an odd number
C7_Witness ==
    /\ op = "get_median"
    /\ Len(pre_list) = 2
    /\ pre_list[1].pennies_tot > pre_list[2].pennies_tot
    /\ (pre_list[1].pennies_tot + pre_list[2].pennies_tot) % 2 = 1
    /\ err = NoError

\* index of the first element of invoices whose insert fails when count
\* elements are stored, Len(invoices) + 1 when none does
FirstFailing(count, invoices) ==
    LET fails == {k \in 1..Len(invoices) :
                    \/ ~IsInvoiceObj(invoices[k])
                    \/ count + (k - 1) >= INVOICE_COUNT_MAX}
    IN  IF fails = {} THEN Len(invoices) + 1
        ELSE CHOOSE k \in fails : \A j \in fails : k <= j

\* C8: add_invoices does not roll back: when the insert of the k-th element
\* fails, the list is the old list followed by the first k-1 elements in
\* order and the count has grown by k-1; when none fails the whole argument
\* is appended.
C8_NoRollback ==
    (op = "add_invoices")
        => LET k == FirstFailing(pre_count, arg)
           IN  /\ invoice_list = pre_list \o SubSeq(arg, 1, k - 1)
               /\ invoice_count = pre_count + (k - 1)
               /\ (err = NoError) <=> (k = Len(arg) + 1)

\* an argument of two or more elements failed after exactly one of them was
\* stored
C8_Witness ==
    /\ op = "add_invoices"
    /\ err # NoError
    /\ Len(arg) >= 2
    /\ Len(invoice_list) = Len(pre_list) + 1

\* C9: add_invoice of a value that is no Invoice raises
\* InvoiceStatsTypeError and changes nothing, also when the object is full:
\* the type check runs before the capacity check.
C9_TypeCheckFirst ==
    (op = "add_invoice" /\ ~IsInvoiceObj(arg[1]))
        => (/\ err = "InvoiceStatsTypeError"
            /\ invoice_list = pre_list
            /\ invoice_count = pre_count)

C9_Witness ==
    /\ op = "add_invoice"
    /\ ~IsInvoiceObj(arg[1])
    /\ pre_count = INVOICE_COUNT_MAX
    /\ err = "InvoiceStatsTypeError"

\* C10: clear never fails and leaves the list empty and the count 0 from any
\* state; an add_invoice of an Invoice right after it succeeds, also when
\* the object was full before.
C10_ClearResets ==
    /\ (op = "clear")
          => (err = NoError /\ invoice_list = <<>> /\ invoice_count = 0)
    /\ (op = "add_invoice" /\ prev_clear >= 0 /\ IsInvoiceObj(arg[1]))
          => (/\ err = NoError
              /\ invoice_list = <<arg[1]>>
              /\ invoice_count = 1)

\* a full object was cleared and then took an invoice
C10_Witness ==
    /\ op = "add_invoice"
    /\ prev_clear = INVOICE_COUNT_MAX
    /\ IsInvoiceObj(arg[1])
    /\ err = NoError

====
